---------------------------- MODULE Spec2Model ----------------------------
(***************************************************************************)
(* Model of io-form (src/src/index.ts): the FormBase / Form classes, the   *)
(* factory Form.build and the operations set, next, submit and validate.   *)
(*                                                                         *)
(* JavaScript values are modelled as follows.                              *)
(*   - a primitive is a string holding its literal: "''" (the empty        *)
(*     string), "'a'", "true", "false", "undefined";                       *)
(*   - anything passed where an object is expected is a record             *)
(*     [kind, props], kind being "null", "undefined", "array" or "object"  *)
(*     and props the mapping of its own enumerable properties;             *)
(*   - the values object an instance holds is a reference into heap, so    *)
(*     that two instances holding the same object is a state of the model. *)
(***************************************************************************)
EXTENDS Integers, Sequences, FiniteSets, TLC

VARIABLES
    forms,   \* the instances the caller holds, in order of creation
    heap,    \* the values objects the instances refer to
    last,    \* the last call made: operation, receiver, arguments, outcome
    calls,   \* the number of set, next and submit calls made so far
    hist,    \* history, one record per instance: how it came to be and the
             \* calls completed on it
    vcall    \* the last direct call of validate: arguments and result

vars == <<forms, heap, last, calls, hist, vcall>>

----------------------------------------------------------------------------
(* Bounds *)

MaxCalls == 2    \* set, next and submit calls made after the form is built
MaxKeys == 2     \* length of the keys array handed to a direct validate call

----------------------------------------------------------------------------
(* JavaScript values *)

Undefined == "undefined"

\* Field names and primitive field values used by the callers of the model.
Fields == {"code", "email"}
Prims == {"''", "'a'"}
Domain(field) == IF field = "code" THEN {"'a'"} ELSE Prims

\* ToBoolean of a primitive.
Truthy(v) == v \notin {"''", "false", "undefined", "null", "0"}

EmptyProps == [k \in {} |-> Undefined]

Null == [kind |-> "null", props |-> EmptyProps]
Undef == [kind |-> "undefined", props |-> EmptyProps]
EmptyArray == [kind |-> "array", props |-> EmptyProps]
Obj(props) == [kind |-> "object", props |-> props]

\* Every mapping from a subset of Fields to values of each field's domain.
ValueObjects == UNION {{m \in [d -> Prims] : \A k \in d : m[k] \in Domain(k)} : d \in SUBSET Fields}

\* obj[key]: undefined when obj has no such property.
Get(props, key) == IF key \in DOMAIN props THEN props[key] ELSE Undefined

\* { ...a, ...b } on property mappings.
Spread(a, b) ==
    [k \in (DOMAIN a) \cup (DOMAIN b) |-> IF k \in DOMAIN b THEN b[k] ELSE a[k]]

\* The own enumerable properties a spread of v copies: none for null and
\* undefined, the properties (indices) for objects (arrays).
OwnProps(v) == IF v.kind \in {"null", "undefined"} THEN EmptyProps ELSE v.props


\* Own enumerable keys of an object as an array (Object.keys).
ObjectKeys(props) ==
    LET n == Cardinality(DOMAIN props)
    IN  CHOOSE s \in [1..n -> DOMAIN props] : \A k \in DOMAIN props : \E i \in 1..n : s[i] = k

----------------------------------------------------------------------------
(* Validators a caller registers: type Fn<V, R> = (value: V) => R.  They   *)
(* are named isEmpty, never and same.                                      *)

\* fn(value) for the validators above:
\*   isEmpty = (value) => value === ''       never = () => false
\*   same    = (value) => value
Apply(fn, value) ==
    CASE fn = "isEmpty" -> IF value = "''" THEN "true" ELSE "false"
      [] fn = "never"   -> "false"
      [] fn = "same"    -> value

\* The fns objects callers pass.
FnsChoices ==
    { EmptyProps,
      [k \in {"email"} |-> <<"isEmpty">>],
      [k \in {"code", "email"} |-> IF k = "code" THEN <<"never", "same">> ELSE <<>>] }

----------------------------------------------------------------------------
(* Form.validate, src/src/index.ts:163-179 *)

\* fns[key]?.some((fn) => fn(value))
Some(list, value) == \E i \in 1..Len(list) : Truthy(Apply(list[i], value))

\* Mutant: every validator must fail (every) instead of one (some).
FieldResultEvery(key, values, fns) ==
    IF key \in DOMAIN fns
    THEN \A i \in 1..Len(fns[key]) : Truthy(Apply(fns[key][i], Get(values, key)))
    ELSE FALSE

\* const result = fns[key] ? fns[key]?.some((fn) => fn(value)) : false;
FieldResult(key, values, fns) ==
    IF key \in DOMAIN fns THEN Some(fns[key], Get(values, key)) ELSE FALSE

\* keys.reduce((acc, key) => ({ ...acc, [key]: result }), {})
RECURSIVE Reduce(_, _, _, _)
Reduce(keys, values, fns, acc) ==
    IF keys = <<>> THEN acc
    ELSE LET key == Head(keys)
             result == FieldResult(key, values, fns)
         IN  Reduce(Tail(keys), values, fns, Spread(acc, [k \in {key} |-> result]))

validate(keys, values, fns) ==
    LET errors == Reduce(keys, values, fns, [k \in {} |-> FALSE])
    IN  [errors |-> errors,
         invalid |-> \E i \in 1..Len(keys) : errors[keys[i]]]

----------------------------------------------------------------------------
(* FormBase, src/src/index.ts:44-114.  A method of an instance is an       *)
(* operator on the world w = [forms, heap] and the index i of its receiver *)

ValuesError == "values parameter must be an object"
FnsError == "fns parameter must be an object"
NoError == ""

isInvalidParam(variable) == variable.kind \in {"null", "undefined", "array"}

\* Mutant: fns has no default.
NoDefaultFns(fns) == fns

\* A parameter default: `fns = {}`, `dirty = false`, `touched = false`.
DefaultFns(fns) == IF fns.kind = "undefined" THEN Obj(EmptyProps) ELSE fns
DefaultFlag(flag) == IF flag = Undefined THEN FALSE ELSE flag = "true"

\* Mutant: fns is checked before values.
ctorErrorFnsFirst(values, fns) ==
    IF isInvalidParam(DefaultFns(fns)) THEN FnsError
    ELSE IF isInvalidParam(values) THEN ValuesError
    ELSE NoError

\* The error the constructor throws for its arguments, NoError when none.
ctorError(values, fns) ==
    IF isInvalidParam(values) THEN ValuesError
    ELSE IF isInvalidParam(DefaultFns(fns)) THEN FnsError
    ELSE NoError

\* An unused object identity.
Fresh(hp) == CHOOSE id \in 1..(Cardinality(DOMAIN hp) + 1) : id \notin DOMAIN hp

\* The heap without the objects no instance of fs refers to.
Collect(hp, fs) ==
    LET live == {fs[i].values : i \in 1..Len(fs)}
    IN  [id \in (DOMAIN hp) \cap live |-> hp[id]]

\* Mutant: the flag is left as it is.
markAsDirtyNot(w, i) == w

markAsDirty(w, i) == [w EXCEPT !.forms[i].dirty = TRUE]

\* Mutant: the flag is left as it is.
markAsTouchedNot(w, i) == w

\* Mutant: the flag is flipped.
markAsTouchedFlips(w, i) == [w EXCEPT !.forms[i].touched = ~@]

markAsTouched(w, i) == [w EXCEPT !.forms[i].touched = TRUE]

\* Mutant: the merge is written into the object the instance holds.
setValuesInPlace(w, i, values) ==
    [w EXCEPT !.heap[w.forms[i].values] = Spread(@, OwnProps(values))]

\* Mutant: the spreads are in the other order, { ...values, ...this.values }.
setValuesReversed(w, i, values) ==
    LET id == Fresh(w.heap)
        merged == Spread(OwnProps(values), w.heap[w.forms[i].values])
    IN  [forms |-> [w.forms EXCEPT ![i].values = id],
         heap |-> (id :> merged) @@ w.heap]

\* this.values = { ...this.values, ...values }: a new object every time.
setValues(w, i, values) ==
    LET id == Fresh(w.heap)
        merged == Spread(w.heap[w.forms[i].values], OwnProps(values))
    IN  [forms |-> [w.forms EXCEPT ![i].values = id],
         heap |-> (id :> merged) @@ w.heap]

setValidation(w, i) ==
    LET this == w.forms[i]
        r == validate(ObjectKeys(w.heap[this.values]), w.heap[this.values], this.fns)
    IN  [w EXCEPT !.forms[i].errors = r.errors, !.forms[i].invalid = r.invalid]

\* Mutant: the constructor stores dirty as touched and touched as dirty.
constructSwapsFlags(w, values, fns, dirty, touched) ==
    LET this == [values |-> values, fns |-> fns, dirty |-> touched,
                 touched |-> dirty, errors |-> [k \in {} |-> FALSE],
                 invalid |-> FALSE]
        n == Len(w.forms) + 1
    IN  setValidation([w EXCEPT !.forms = Append(@, this)], n)

\* Mutant: the constructor does not call _setValidation.
constructUnvalidated(w, values, fns, dirty, touched) ==
    LET this == [values |-> values, fns |-> fns, dirty |-> dirty,
                 touched |-> touched, errors |-> [k \in {} |-> FALSE],
                 invalid |-> FALSE]
    IN  [w EXCEPT !.forms = Append(@, this)]

\* new Form(values, fns, dirty, touched) for arguments the constructor
\* accepts: values is the reference of an object of the heap.  The new
\* instance is the last of forms.
construct(w, values, fns, dirty, touched) ==
    LET this == [values |-> values, fns |-> fns, dirty |-> dirty,
                 touched |-> touched, errors |-> [k \in {} |-> FALSE],
                 invalid |-> FALSE]
        n == Len(w.forms) + 1
    IN  setValidation([w EXCEPT !.forms = Append(@, this)], n)

\* if (e) { e.preventDefault(); }: the calls of the hook, each with what the
\* hook can see of the receiver when it is called: its dirty flag and the
\* number of instances built so far.
preventSubmit(w, i, e) ==
    IF e.kind \in {"null", "undefined"} THEN <<>>
    ELSE <<[dirty |-> w.forms[i].dirty, forms |-> Len(w.forms)]>>


\* new Form<V>(values, fns, dirty, touched), src/src/index.ts:53-77 and
\* 117-119: the error thrown, or the world with the new instance appended.
\* values and fns are what is passed; ref is the identity of values in the
\* heap when it is an object.
newForm(w, values, ref, fns, dirty, touched) ==
    LET error == ctorError(values, fns)
    IN  [error |-> error,
         w |-> IF error # NoError THEN w
               ELSE construct(w, ref, DefaultFns(fns).props,
                              DefaultFlag(dirty), DefaultFlag(touched))]

\* Mutant: a flag is not passed on.
LitFalse(b) == "false"

\* A boolean field of an instance as the argument it is passed on as.
Lit(b) == IF b THEN "true" ELSE "false"

----------------------------------------------------------------------------
(* Arguments the callers of the model pass *)

ValuesArgs == {Null, Undef, EmptyArray} \cup {Obj(p) : p \in ValueObjects}
FnsArgs == {Null, Undef, EmptyArray} \cup {Obj(f) : f \in FnsChoices}
FlagArgs == {Undefined, "true", "false"}
Event == Obj([k \in {"preventDefault"} |-> "function"])
EventArgs == {Undef, Event}

\* Arrays of at most n keys.
KeyArrays(n) == UNION {[1..m -> Fields] : m \in 0..n}

----------------------------------------------------------------------------
(* State *)

Call(op, recv, arg, fns, dirty, touched, error, ret, hook) ==
    [op |-> op, recv |-> recv, arg |-> arg, fns |-> fns, dirty |-> dirty,
     touched |-> touched, error |-> error, ret |-> ret, hook |-> hook]

NoValidate ==
    [keys |-> <<>>, values |-> EmptyProps, fns |-> EmptyProps,
     result |-> [errors |-> [k \in {} |-> FALSE], invalid |-> FALSE], n |-> 0]

Init ==
    /\ forms = <<>>
    /\ heap = [id \in {} |-> EmptyProps]
    /\ last = Call("none", 0, Undef, Undef, Undefined, Undefined, NoError, 0, <<>>)
    /\ calls = 0
    /\ hist = <<>>
    /\ vcall = NoValidate

World == [forms |-> forms, heap |-> heap]

\* The history record of an instance built by the call `by` with the flags
\* dirty and touched: those of its receiver at that moment (of the arguments
\* for build).
Born(by, dirty, touched) ==
    [by |-> by, fromDirty |-> dirty, fromTouched |-> touched,
     submitted |-> FALSE, changed |-> FALSE]

\* The world a call leaves: the objects no instance refers to are gone.
Leaves(w) ==
    /\ forms' = w.forms
    /\ heap' = Collect(w.heap, w.forms)

\* Form.build(values, fns, dirty, touched), src/src/index.ts:124-125
build(values, fns, dirty, touched) ==
    /\ last.op = "none"
    /\ LET ref == Fresh(heap)
           w0 == [forms |-> forms,
                  heap |-> IF values.kind = "object"
                           THEN (ref :> values.props) @@ heap ELSE heap]
           r == newForm(w0, values, ref, fns, dirty, touched)
       IN  /\ Leaves(r.w)
           /\ last' = Call("build", 0, values, fns, dirty, touched, r.error,
                           IF r.error = NoError THEN Len(r.w.forms) ELSE 0, <<>>)
           /\ hist' = IF r.error = NoError
                      THEN <<Born("build", DefaultFlag(dirty), DefaultFlag(touched))>>
                      ELSE hist
    /\ UNCHANGED <<calls, vcall>>

\* Mutant: set marks the receiver touched before it checks its argument.
SetTouchesFirst(i, values) ==
    /\ calls < MaxCalls
    /\ calls' = calls + 1
    /\ IF isInvalidParam(values)
       THEN /\ Leaves(markAsTouched(World, i))
            /\ last' = Call("set", i, values, Undef, Undefined, Undefined,
                            ValuesError, 0, <<>>)
            /\ UNCHANGED hist
       ELSE LET w == setValidation(setValues(markAsTouched(World, i), i, values), i)
            IN  /\ Leaves(w)
                /\ last' = Call("set", i, values, Undef, Undefined, Undefined,
                                NoError, 0, <<>>)
                /\ hist' = [hist EXCEPT ![i].changed = TRUE]
    /\ UNCHANGED vcall

\* Form.set(values), src/src/index.ts:140-148
set(i, values) ==
    /\ calls < MaxCalls
    /\ calls' = calls + 1
    /\ IF isInvalidParam(values)
       THEN /\ UNCHANGED <<forms, heap, hist>>
            /\ last' = Call("set", i, values, Undef, Undefined, Undefined,
                            ValuesError, 0, <<>>)
       ELSE LET w == setValidation(setValues(markAsTouched(World, i), i, values), i)
            IN  /\ Leaves(w)
                /\ last' = Call("set", i, values, Undef, Undefined, Undefined,
                                NoError, 0, <<>>)
                /\ hist' = [hist EXCEPT ![i].changed = TRUE]
    /\ UNCHANGED vcall

\* Mutant: next builds the new instance from a merged copy and leaves its
\* receiver alone.
nextPure(i, values) ==
    /\ calls < MaxCalls
    /\ calls' = calls + 1
    /\ LET id == Fresh(heap)
           merged == Spread(heap[forms[i].values], OwnProps(values))
           w1 == [forms |-> forms, heap |-> (id :> merged) @@ heap]
           r == newForm(w1, Obj(merged), id, Obj(forms[i].fns),
                        Lit(forms[i].dirty), "true")
       IN  /\ Leaves(r.w)
           /\ last' = Call("next", i, values, Undef, Undefined, Undefined, r.error,
                           IF r.error = NoError THEN Len(r.w.forms) ELSE 0, <<>>)
           /\ hist' = Append([hist EXCEPT ![i].changed = TRUE],
                             Born("next", w1.forms[i].dirty, w1.forms[i].touched))
    /\ UNCHANGED vcall

\* Form.next(values), src/src/index.ts:130-135
next(i, values) ==
    /\ calls < MaxCalls
    /\ calls' = calls + 1
    /\ LET w1 == setValues(markAsTouched(World, i), i, values)
           this == w1.forms[i]
           r == newForm(w1, Obj(w1.heap[this.values]), this.values, Obj(this.fns),
                        Lit(this.dirty), Lit(this.touched))
       IN  /\ Leaves(r.w)
           /\ last' = Call("next", i, values, Undef, Undefined, Undefined, r.error,
                           IF r.error = NoError THEN Len(r.w.forms) ELSE 0, <<>>)
           /\ hist' = Append([hist EXCEPT ![i].changed = TRUE],
                             Born("next", w1.forms[i].dirty, w1.forms[i].touched))
    /\ UNCHANGED vcall

\* Mutant: submit marks the receiver dirty before it calls the hook.
submitMarksFirst(i, e) ==
    /\ calls < MaxCalls
    /\ calls' = calls + 1
    /\ LET w1 == markAsDirty(World, i)
           hook == preventSubmit(w1, i, e)
           this == w1.forms[i]
           r == newForm(w1, Obj(w1.heap[this.values]), this.values, Obj(this.fns),
                        Lit(this.dirty), Lit(this.touched))
       IN  /\ Leaves(r.w)
           /\ last' = Call("submit", i, e, Undef, Undefined, Undefined, r.error,
                           IF r.error = NoError THEN Len(r.w.forms) ELSE 0,
                           hook)
           /\ hist' = Append([hist EXCEPT ![i].submitted = TRUE],
                             Born("submit", w1.forms[i].dirty, w1.forms[i].touched))
    /\ UNCHANGED vcall

\* Form.submit(e), src/src/index.ts:153-158
submit(i, e) ==
    /\ calls < MaxCalls
    /\ calls' = calls + 1
    /\ LET hook == preventSubmit(World, i, e)
           w1 == markAsDirty(World, i)
           this == w1.forms[i]
           r == newForm(w1, Obj(w1.heap[this.values]), this.values, Obj(this.fns),
                        Lit(this.dirty), Lit(this.touched))
       IN  /\ Leaves(r.w)
           /\ last' = Call("submit", i, e, Undef, Undefined, Undefined, r.error,
                           IF r.error = NoError THEN Len(r.w.forms) ELSE 0,
                           hook)
           /\ hist' = Append([hist EXCEPT ![i].submitted = TRUE],
                             Born("submit", w1.forms[i].dirty, w1.forms[i].touched))
    /\ UNCHANGED vcall

\* A direct call validate(keys, values, fns) of the public method.
ValidateCall(keys, values, fns) ==
    /\ vcall' = [keys |-> keys, values |-> values, fns |-> fns,
                 result |-> validate(keys, values, fns), n |-> 1]
    /\ UNCHANGED <<forms, heap, last, calls, hist>>

\* Mutant: validate stores its result in the instance it is called on.
validateStores(i) ==
    /\ calls < MaxCalls
    /\ calls' = calls + 1
    /\ LET keys == ObjectKeys(heap[forms[i].values])
           result == validate(keys, heap[forms[i].values], forms[i].fns)
       IN  /\ vcall' = [keys |-> keys, values |-> heap[forms[i].values],
                        fns |-> forms[i].fns, result |-> result, n |-> 1]
           /\ forms' = [forms EXCEPT ![i].errors = result.errors,
                                     ![i].invalid = result.invalid]
    /\ last' = Call("validate", i, Undef, Undef, Undefined, Undefined, NoError, 0, <<>>)
    /\ UNCHANGED <<heap, hist>>

\* x.validate(Object.keys(x.values), x.values, x.fns), src/src/index.ts:163-179:
\* the public method called on an instance with the instance's own values
\* and fns.
validateOn(i) ==
    /\ calls < MaxCalls
    /\ calls' = calls + 1
    /\ LET keys == ObjectKeys(heap[forms[i].values])
       IN  vcall' = [keys |-> keys, values |-> heap[forms[i].values],
                     fns |-> forms[i].fns,
                     result |-> validate(keys, heap[forms[i].values], forms[i].fns),
                     n |-> 1]
    /\ last' = Call("validate", i, Undef, Undef, Undefined, Undefined, NoError, 0, <<>>)
    /\ UNCHANGED <<forms, heap, hist>>

\* A form is built with its flags left to their defaults, then called.
Next ==
    \/ \E values \in ValuesArgs, fns \in FnsArgs : build(values, fns, Undefined, Undefined)
    \/ \E i \in 1..Len(forms), values \in ValuesArgs : set(i, values)
    \/ \E i \in 1..Len(forms), values \in ValuesArgs : next(i, values)
    \/ \E i \in 1..Len(forms), e \in EventArgs : submit(i, e)

Spec == Init /\ [][Next]_vars

\* The calls of Spec and the calls of validate on the instances.
NextChain ==
    \/ Next
    \/ \E i \in 1..Len(forms) : validateOn(i)

SpecChain == Init /\ [][NextChain]_vars

\* The specification of construction alone, with every argument.
NextBuild ==
    \E values \in ValuesArgs, fns \in FnsArgs, dirty \in FlagArgs, touched \in FlagArgs :
        build(values, fns, dirty, touched)

SpecBuild == Init /\ [][NextBuild]_vars

\* The specification of the direct calls of validate.
NextValidate ==
    \E keys \in KeyArrays(MaxKeys), values \in ValueObjects, fns \in FnsChoices :
        ValidateCall(keys, values, fns)

SpecValidate == Init /\ [][NextValidate]_vars


----------------------------------------------------------------------------
(* Vocabulary of the properties *)

Instances == 1..Len(forms)

\* The values object instance i holds.
ValuesOf(i) == heap[forms[i].values]

InvalidKinds == {"null", "undefined", "array"}

\* Some validator registered for field f in fns is truthy on value v.
Fails(fns, f, v) ==
    /\ f \in DOMAIN fns
    /\ \E j \in DOMAIN fns[f] : Truthy(Apply(fns[f][j], v))

\* errs and inv are the validation of the values vs under fns.
Validated(errs, inv, vs, fns) ==
    /\ DOMAIN errs = DOMAIN vs
    /\ \A f \in DOMAIN vs : errs[f] = Fails(fns, f, vs[f])
    /\ inv = (\E f \in DOMAIN vs : Fails(fns, f, vs[f]))

\* This step is a call of op.
Called(op) == calls' = calls + 1 /\ last'.op = op

----------------------------------------------------------------------------
(* C1: in every reachable state, the errors of every instance are the      *)
(* validation of its current values: for every field f the instance has an *)
(* error entry and a value for, errors[f] is true iff some validator of    *)
(* fns[f] is truthy on values[f].  (That the two have the same fields is   *)
(* C2.)  The code breaks it: next merges into the receiver's values and    *)
(* leaves the receiver's errors as they were.                              *)
C1_ErrorsNeverStale ==
    \A i \in Instances :
        \A f \in (DOMAIN ValuesOf(i)) \cap (DOMAIN forms[i].errors) :
            forms[i].errors[f] <=> Fails(forms[i].fns, f, ValuesOf(i)[f])

(* C2: in every reachable state, errors has exactly the key set of values  *)
(* and invalid is true iff some entry of errors is true.  The code breaks  *)
(* the first half on the receiver of next, whose values gain the keys of   *)
(* the partial while its errors are not recomputed.                        *)
C2_ErrorsKeysAndInvalid ==
    \A i \in Instances :
        /\ DOMAIN forms[i].errors = DOMAIN ValuesOf(i)
        /\ forms[i].invalid = (\E f \in DOMAIN forms[i].errors : forms[i].errors[f])

(* C3: next(partial) fails with 'values parameter must be an object' when  *)
(* partial is null, undefined or an array.  The code has no such check in  *)
(* next: the call returns a new instance.                                  *)
C3_NextRejectsInvalid ==
    (last.op = "next" /\ last.arg.kind \in InvalidKinds) => last.error = ValuesError

(* C4: validate(keys, values, fns) returns errors with exactly the keys of *)
(* keys, errors[key] being false when fns has no list or an empty list for *)
(* key and otherwise true iff some validator of fns[key] is truthy on      *)
(* values[key]; invalid is true iff some errors[key] is true.              *)
C4_ValidateLaw ==
    vcall.n = 1 =>
        LET keys == {vcall.keys[j] : j \in DOMAIN vcall.keys}
            errors == vcall.result.errors
        IN  /\ DOMAIN errors = keys
            /\ \A key \in keys :
                 /\ (key \notin DOMAIN vcall.fns \/ vcall.fns[key] = <<>>) => errors[key] = FALSE
                 /\ errors[key] = Fails(vcall.fns, key, Get(vcall.values, key))
            /\ vcall.result.invalid = (\E key \in keys : errors[key])

\* validate was called on two keys, one in error and one not.
C4_Witness ==
    /\ vcall.n = 1
    /\ \E j, k \in DOMAIN vcall.keys :
         /\ vcall.result.errors[vcall.keys[j]]
         /\ ~vcall.result.errors[vcall.keys[k]]
         /\ vcall.keys[k] \in DOMAIN vcall.fns

(* C5: construction fails with 'values parameter must be an object' when   *)
(* values is null, undefined or an array, whatever fns, dirty and touched  *)
(* are, and produces no instance.                                          *)
C5_BuildRejectsValues ==
    (last.op = "build" /\ last.arg.kind \in InvalidKinds) =>
        /\ last.error = ValuesError
        /\ last.ret = 0
        /\ forms = <<>>

\* Construction was refused for its values although fns was invalid too.
C5_Witness ==
    /\ last.op = "build"
    /\ last.arg.kind = "array"
    /\ last.fns.kind = "null"
    /\ last.dirty = "true"
    /\ last.error = ValuesError


(* C6, as amended: with a valid values argument, construction fails with   *)
(* 'fns parameter must be an object' exactly when fns is null or an array; *)
(* when fns is omitted or undefined the default {} is used and             *)
(* construction succeeds.                                                  *)
C6_BuildRejectsFns ==
    (last.op = "build" /\ last.arg.kind = "object") =>
        /\ last.fns.kind \in {"null", "array"} => (last.error = FnsError /\ forms = <<>>)
        /\ last.fns.kind = "object" => last.error = NoError
        /\ last.fns.kind = "undefined" =>
              /\ last.error = NoError
              /\ forms[last.ret].fns = EmptyProps

\* Construction with valid values was refused for an array as fns.
C6_Witness ==
    /\ last.op = "build"
    /\ last.arg.kind = "object"
    /\ last.fns.kind = "array"
    /\ last.error = FnsError

(* C6 as stated: with a valid values argument, construction fails with     *)
(* 'fns parameter must be an object' when fns is null, undefined or an     *)
(* array.                                                                  *)
C6_Original ==
    (last.op = "build" /\ last.arg.kind = "object" /\ last.fns.kind \in InvalidKinds)
        => last.error = FnsError

(* C7: right after a construction with valid values and fns, the instance  *)
(* holds the given values, dirty and touched equal the arguments (false    *)
(* when omitted) and errors and invalid are the validation of the values   *)
(* under fns.                                                              *)
C7_BuildState ==
    (last.op = "build" /\ last.error = NoError) =>
        LET this == forms[last.ret]
            given == IF last.fns.kind = "undefined" THEN EmptyProps ELSE last.fns.props
        IN  /\ Len(forms) = 1 /\ last.ret = 1
            /\ ValuesOf(last.ret) = last.arg.props
            /\ this.fns = given
            /\ this.dirty = (last.dirty = "true")
            /\ this.touched = (last.touched = "true")
            /\ Validated(this.errors, this.invalid, last.arg.props, given)

\* A form was built dirty, with touched omitted and a field in error.
C7_Witness ==
    /\ last.op = "build"
    /\ last.error = NoError
    /\ last.dirty = "true"
    /\ last.touched = Undefined
    /\ forms[last.ret].dirty
    /\ ~forms[last.ret].touched
    /\ forms[last.ret].invalid
    /\ \E f \in DOMAIN forms[last.ret].errors : ~forms[last.ret].errors[f]

(* C8: set(partial) with a valid partial changes the receiver in place:    *)
(* afterwards values[f] = partial[f] for every field of partial, values[f] *)
(* is as before for every other field, touched is true and errors and      *)
(* invalid are the validation of the merged values.                        *)
C8_SetMerges ==
    [][(Called("set") /\ last'.arg.kind = "object") =>
          LET i == last'.recv
              partial == last'.arg.props
              old == heap[forms[i].values]
              new == heap'[forms'[i].values]
          IN  /\ last'.error = NoError
              /\ Len(forms') = Len(forms)
              /\ DOMAIN new = (DOMAIN old) \cup (DOMAIN partial)
              /\ \A f \in DOMAIN partial : new[f] = partial[f]
              /\ \A f \in (DOMAIN old) \ (DOMAIN partial) : new[f] = old[f]
              /\ forms'[i].touched
              /\ forms'[i].dirty = forms[i].dirty
              /\ forms'[i].fns = forms[i].fns
              /\ Validated(forms'[i].errors, forms'[i].invalid, new, forms[i].fns)
      ]_vars

\* set changed email alone on a form that has code, and left it in error.
C8_Witness ==
    /\ last.op = "set"
    /\ last.error = NoError
    /\ DOMAIN last.arg.props = {"email"}
    /\ "code" \in DOMAIN ValuesOf(last.recv)
    /\ forms[last.recv].errors["email"]
    /\ forms[last.recv].touched

(* C9: set(partial) fails with 'values parameter must be an object' when   *)
(* partial is null, undefined or an array, and then leaves the receiver's  *)
(* values, errors, invalid, dirty and touched as they were.                *)
C9_SetRejectsInvalid ==
    [][(Called("set") /\ last'.arg.kind \in InvalidKinds) =>
          /\ last'.error = ValuesError
          /\ forms' = forms
          /\ heap' = heap
      ]_vars

\* set was refused on an instance that is still untouched.
C9_Witness ==
    /\ last.op = "set"
    /\ last.arg.kind = "undefined"
    /\ last.error = ValuesError
    /\ ~forms[last.recv].touched

(* C10: next(p) with a valid partial p returns a new instance whose values *)
(* are the shallow merge of the receiver's values before the call with p,  *)
(* whose fns and dirty are the receiver's, whose touched is true and whose *)
(* errors and invalid are the validation of the merged values.             *)
C10_NextReturns ==
    [][(Called("next") /\ last'.arg.kind = "object") =>
          LET i == last'.recv
              y == last'.ret
              p == last'.arg.props
              old == heap[forms[i].values]
              new == heap'[forms'[y].values]
          IN  /\ last'.error = NoError
              /\ y = Len(forms) + 1
              /\ Len(forms') = y
              /\ DOMAIN new = (DOMAIN old) \cup (DOMAIN p)
              /\ \A f \in DOMAIN p : new[f] = p[f]
              /\ \A f \in (DOMAIN old) \ (DOMAIN p) : new[f] = old[f]
              /\ forms'[y].fns = forms[i].fns
              /\ forms'[y].dirty = forms[i].dirty
              /\ forms'[y].touched
              /\ Validated(forms'[y].errors, forms'[y].invalid, new, forms[i].fns)
      ]_vars

\* next on a dirty instance changed email alone and returned an instance in
\* error that kept code.
C10_Witness ==
    /\ last.op = "next"
    /\ last.ret > 1
    /\ DOMAIN last.arg.props = {"email"}
    /\ "code" \in DOMAIN ValuesOf(last.ret)
    /\ forms[last.ret].dirty
    /\ forms[last.ret].errors["email"]


(* C11: submit() marks the receiver dirty and returns a new instance with  *)
(* dirty = true whose values, fns and touched are the receiver's and whose *)
(* errors and invalid are the validation of those values; against the      *)
(* receiver before the call the returned instance differs in dirty at most *)
(* and has equal errors, fns, invalid, touched and values.  The code       *)
(* breaks the last part when the receiver's errors are stale (C1): the     *)
(* returned instance is validated afresh.                                  *)
C11_SubmitFrame ==
    [][Called("submit") =>
          LET i == last'.recv
              y == last'.ret
              old == heap[forms[i].values]
              new == heap'[forms'[y].values]
          IN  /\ last'.error = NoError
              /\ y = Len(forms) + 1
              /\ forms'[i].dirty
              /\ forms'[y].dirty
              /\ new = old
              /\ forms'[y].fns = forms[i].fns
              /\ forms'[y].touched = forms[i].touched
              /\ Validated(forms'[y].errors, forms'[y].invalid, old, forms[i].fns)
              /\ forms'[y].errors = forms[i].errors
              /\ forms'[y].invalid = forms[i].invalid
      ]_vars

C13_SubmitHook ==
    [][Called("submit") =>
          /\ last'.error = NoError
          /\ last'.ret = Len(forms) + 1
          /\ IF last'.arg.kind = "undefined"
             THEN last'.hook = <<>>
             ELSE /\ Len(last'.hook) = 1
                  /\ last'.hook[1].dirty = forms[last'.recv].dirty
                  /\ last'.hook[1].forms = Len(forms)
      ]_vars

\* The hook of a submit was called while the receiver was not yet dirty.
C13_Witness ==
    /\ last.op = "submit"
    /\ last.arg = Event
    /\ Len(last.hook) = 1
    /\ ~last.hook[1].dirty
    /\ forms[last.recv].dirty
    /\ last.hook[1].forms < Len(forms)


(* C14: set(p) is idempotent: a set(p) that follows a set(p) on the same   *)
(* instance leaves values, errors, invalid, dirty and touched as the first *)
(* call left them; and set(p) sets touched = true even when p changes no   *)
(* field value, the empty partial included.                                *)
C14_SetIdempotent ==
    [][(Called("set") /\ last'.arg.kind = "object") =>
          LET i == last'.recv
              old == heap[forms[i].values]
              new == heap'[forms'[i].values]
          IN  /\ forms'[i].touched
              /\ (last.op = "set" /\ last.recv = i /\ last.arg = last'.arg) =>
                    /\ new = old
                    /\ forms'[i].errors = forms[i].errors
                    /\ forms'[i].invalid = forms[i].invalid
                    /\ forms'[i].dirty = forms[i].dirty
                    /\ forms'[i].touched = forms[i].touched
      ]_vars

\* Two calls of set were made on the only instance, the second with the
\* empty partial, and the instance is touched.
C14_Witness ==
    /\ calls = 2
    /\ Len(forms) = 1
    /\ last.op = "set"
    /\ last.arg = Obj(EmptyProps)
    /\ last.error = NoError
    /\ forms[1].touched
    /\ forms[1].invalid


C18_FnsAndKeysFixed ==
    [][LET keysOf(fs, hp, i) == DOMAIN hp[fs[i].values]
           recv == last'.recv
           built == last.op = "none" /\ last'.op = "build" /\ last'.error = NoError
           uniform == \A i, j \in 1..Len(forms) :
                          keysOf(forms, heap, i) = keysOf(forms, heap, j)
           inFields == (Called("set") \/ Called("next")) =>
                          DOMAIN OwnProps(last'.arg) \subseteq keysOf(forms, heap, recv)
       IN  /\ \A i \in 1..Len(forms) : forms'[i].fns = forms[i].fns
           /\ built =>
                /\ forms'[1].fns = IF last'.fns.kind = "undefined"
                                   THEN EmptyProps ELSE last'.fns.props
                /\ keysOf(forms', heap', 1) = DOMAIN last'.arg.props
           /\ (Called("next") \/ Called("submit")) =>
                /\ last'.ret = Len(forms) + 1
                /\ forms'[last'.ret].fns = forms[recv].fns
           /\ (Len(forms) > 0 /\ uniform /\ inFields) =>
                \A i \in 1..Len(forms') :
                    keysOf(forms', heap', i) = keysOf(forms, heap, 1)
           /\ Called("validate") =>
                /\ forms' = forms /\ heap' = heap
                /\ vcall'.values = heap[forms[recv].values]
                /\ vcall'.fns = forms[recv].fns
      ]_vars

\* validate has been called on an instance next returned for a partial of
\* one field: both instances have that field alone and the validators of the
\* form.
C18_Witness ==
    /\ last.op = "validate" /\ last.recv = 2
    /\ Len(forms) = 2 /\ hist[2].by = "next"
    /\ DOMAIN heap[forms[1].values] = {"email"}
    /\ DOMAIN heap[forms[2].values] = {"email"}
    /\ heap[forms[2].values]["email"] = "'a'"
    /\ forms[2].fns # EmptyProps /\ forms[2].fns = forms[1].fns
    /\ vcall.n = 1 /\ vcall.result.invalid = forms[2].invalid

(* C19: instances are isolated.  A set, next or submit on one instance     *)
(* leaves the values, errors, invalid, dirty and touched of every other    *)
(* instance unchanged: of the instance it was returned from, and of the    *)
(* instances returned from it, which were built from the very values       *)
(* object it held.                                                         *)
C19_Isolated ==
    [][(Called("set") \/ Called("next") \/ Called("submit")) =>
          \A j \in 1..Len(forms) :
              j # last'.recv =>
                  /\ heap'[forms'[j].values] = heap[forms[j].values]
                  /\ forms'[j].errors = forms[j].errors
                  /\ forms'[j].invalid = forms[j].invalid
                  /\ forms'[j].dirty = forms[j].dirty
                  /\ forms'[j].touched = forms[j].touched
      ]_vars

\* next returned the second instance from the first, and a later set on the
\* first gave its field another value: the second keeps the value and the
\* error it was built with.
C19_Witness ==
    /\ calls = 2 /\ Len(forms) = 2
    /\ hist[2].by = "next"
    /\ last.op = "set" /\ last.recv = 1 /\ last.error = NoError
    /\ "email" \in DOMAIN ValuesOf(1) /\ "email" \in DOMAIN ValuesOf(2)
    /\ ValuesOf(1)["email"] # ValuesOf(2)["email"]
    /\ forms[1].invalid # forms[2].invalid

(* C20: next and set agree.  For a partial that is an object, the instance *)
(* next returns has the values, errors, invalid, dirty, touched and fns    *)
(* the receiver would have after set with the same partial.                *)
C20_NextAgreesWithSet ==
    [][(Called("next") /\ ~isInvalidParam(last'.arg)) =>
          LET i == last'.recv
              afterSet == setValidation(
                              setValues(markAsTouched(World, i), i, last'.arg), i)
              x == afterSet.forms[i]
              y == forms'[last'.ret]
          IN  /\ last'.ret = Len(forms) + 1
              /\ heap'[y.values] = afterSet.heap[x.values]
              /\ y.errors = x.errors
              /\ y.invalid = x.invalid
              /\ y.dirty = x.dirty
              /\ y.touched = x.touched
              /\ y.fns = x.fns
      ]_vars

\* next returned a dirty, touched and invalid instance for a partial of one
\* field, from a form that had been submitted.
C20_Witness ==
    /\ calls = 2 /\ Len(forms) = 3
    /\ last.op = "next" /\ last.ret = 3 /\ last.recv = 1
    /\ last.arg.kind = "object" /\ DOMAIN last.arg.props = {"email"}
    /\ forms[3].dirty /\ forms[3].touched /\ forms[3].invalid
    /\ ~forms[2].invalid

============================================================================
